---- MODULE Spec2Model ----
(***************************************************************************)
(* The document pipeline of ai-doc-summarizer-service: DocumentsService    *)
(* (uploadDocument, analyzeDocument, deleteDocument) over the MinIO blob   *)
(* store (FileStorageService), the text extractor, the OpenRouter client   *)
(* and the Mongo record store (AbstractModelAction).                       *)
(*                                                                         *)
(* Requests run on one event loop: a request advances from one awaited     *)
(* collaborator call to the next in one atomic step, and steps of          *)
(* different requests interleave freely.  Every collaborator call that the *)
(* code guards with try/catch can succeed or fail.                         *)
(***************************************************************************)
EXTENDS Integers, Sequences, FiniteSets, TLC

\* ------------------------------------------------------------------ bounds

\* Upload requests admitted in one behaviour; bounds the storage keys handed
\* out and the records created.
MaxUploads == 2

\* Concurrent requests of each kind.  A request has no identity of its own:
\* a new one takes the lowest free place.
UploadCalls == {1, 2}
AnalyzeCalls == {1, 2}
DeleteCalls == {1}
ListCalls == {1}

\* --------------------------------------------------------------- constants

MAX_TEXT_LENGTH == 200000

NULL == "null"

\* A reference that may be null: the empty sequence, or the value alone.
None == <<>>
Some(x) == <<x>>
EMPTY_OBJECT == "{}"

PENDING == "PENDING"
ANALYZING == "ANALYZING"
COMPLETED == "COMPLETED"
FAILED == "FAILED"
AnalysisStatus == {PENDING, ANALYZING, COMPLETED, FAILED}

DocumentType == {"invoice", "CV", "report", "letter", "contract", "article", "other"}

PDF == "application/pdf"
DOCX == "application/vnd.openxmlformats-officedocument.wordprocessingml.document"

\* Exceptions of the framework, by class and message constant.
BadRequestException(msg) ==
    [ok |-> FALSE, exception |-> "BadRequestException", message |-> msg]
NotFoundException(msg) ==
    [ok |-> FALSE, exception |-> "NotFoundException", message |-> msg]
InternalServerErrorException(msg) ==
    [ok |-> FALSE, exception |-> "InternalServerErrorException", message |-> msg]
UnsupportedMediaTypeException(msg) ==
    [ok |-> FALSE, exception |-> "UnsupportedMediaTypeException", message |-> msg]

\* A successful ApiResponse.
ApiResponse(msg, data) == [ok |-> TRUE, message |-> msg, data |-> data]

\* The fields DocumentResponseDto copies from a record.
DocumentResponseDto(doc) ==
    [f \in {"id", "originalName", "mimetype", "size", "analysisStatus",
            "extractedText", "summary", "documentType", "extractedMetadata"} |->
        IF f = "id" THEN doc._id ELSE doc[f]]

\* ------------------------------------------------------------------ inputs

\* A text is known by the buffer it was extracted from and its length: the
\* prefix of a given length of one raw text is unique.
Text(src, len) == [src |-> src, len |-> len]

\* Uploaded files (Express.Multer.File): rawlen is the length of the text
\* the buffer holds.
Files ==
    { [originalname |-> "a.pdf", mimetype |-> PDF, size |-> 10, rawlen |-> 5],
      [originalname |-> "b.docx", mimetype |-> DOCX, size |-> 20,
       rawlen |-> MAX_TEXT_LENGTH + 1] }

\* Files whose text is empty, short, and just below, at and above the limit.
BoundaryFiles ==
    { [originalname |-> "c.pdf", mimetype |-> PDF, size |-> 30, rawlen |-> n] :
        n \in {0, 1, MAX_TEXT_LENGTH - 1, MAX_TEXT_LENGTH, MAX_TEXT_LENGTH + 1,
               2 * MAX_TEXT_LENGTH} }

\* ------------------------------------------------------------------- state

VARIABLES
    blobs,      \* object keys present in the MinIO bucket
    nextKey,    \* source of fresh object keys (random bytes + timestamp)
    deleteFailures, \* keys whose removeObject failed, as deleteFile logs them
    docs,       \* the documents collection: docs[i] is the record with _id i
    uploads,    \* uploadDocument requests in flight, by request
    analyses,   \* analyzeDocument requests in flight, by request
    deletes,    \* deleteDocument requests in flight, by request
    lists,      \* listDocuments requests in flight, by request
    ret         \* the call that returns in this step, with what it returns

vars == <<blobs, nextKey, deleteFailures, docs, uploads, analyses, deletes, lists, ret>>

\* No request returns in this step.
NoReturn == [op |-> "none"]

\* The ids of stored records.
Ids == 1..Len(docs)

\* A new request takes the lowest place that is free.
LowestFree(calls, c) ==
    /\ calls[c].pc = "idle"
    /\ \A b \in DOMAIN calls : b < c => calls[b].pc # "idle"

\* ------------------------------------------------------------ record store

\* Schema defaults that fill in a summary.
SchemaDefaults_Filled ==
    [analysisStatus |-> PENDING, summary |-> "s1", documentType |-> NULL,
     extractedMetadata |-> EMPTY_OBJECT, isDeleted |-> FALSE, deletedAt |-> NULL]

\* Document schema defaults applied by model.create.
SchemaDefaults ==
    [analysisStatus |-> PENDING, summary |-> NULL, documentType |-> NULL,
     extractedMetadata |-> EMPTY_OBJECT, isDeleted |-> FALSE, deletedAt |-> NULL]

\* The stored record of a create payload: the payload's fields over the
\* schema defaults, with the assigned _id.
NewDocument(id, createPayload) ==
    [f \in {"_id"} \cup DOMAIN SchemaDefaults \cup DOMAIN createPayload |->
        IF f = "_id" THEN id
        ELSE IF f \in DOMAIN createPayload THEN createPayload[f]
        ELSE SchemaDefaults[f]]

\* The validators of the schema that a create payload of uploadDocument can
\* fail: extractedText is a required string (the empty string is refused) of
\* at most maxlength characters.
SchemaValid(createPayload) ==
    /\ createPayload.extractedText.len >= 1
    /\ createPayload.extractedText.len <= 200000

\* findOneAndUpdate's effect on one record: the payload's fields replace the
\* record's, every other field is kept.
ApplyUpdate(doc, updatePayload) ==
    [f \in DOMAIN doc |->
        IF f \in DOMAIN updatePayload THEN updatePayload[f] ELSE doc[f]]

\* A lookup by _id alone.
GetNotDeleted_ById(id) ==
    IF id \in Ids THEN Some(docs[id]) ELSE None

\* A lookup that returns the latest record that is not deleted.
GetNotDeleted_Latest(id) ==
    IF \E i \in Ids : ~docs[i].isDeleted
    THEN Some(docs[CHOOSE i \in Ids : ~docs[i].isDeleted /\
                       \A j \in Ids : ~docs[j].isDeleted => j <= i])
    ELSE None

\* model.findOne({_id: id, isDeleted: false}): the record or null.
GetNotDeleted(id) ==
    IF id \in Ids /\ ~docs[id].isDeleted THEN Some(docs[id]) ELSE None

\* An update that leaves a COMPLETED record alone when it would mark it
\* FAILED.
UpdatedDocs_KeepCompleted(id, updatePayload) ==
    IF /\ docs[id].analysisStatus = COMPLETED
       /\ "analysisStatus" \in DOMAIN updatePayload
       /\ updatePayload.analysisStatus = FAILED
    THEN docs
    ELSE [docs EXCEPT ![id] = ApplyUpdate(docs[id], updatePayload)]

\* An update that removes the record when it is given the delete marker.
UpdatedDocs_Removing(id, updatePayload) ==
    IF "isDeleted" \in DOMAIN updatePayload
    THEN [i \in 1..(Len(docs) - 1) |-> IF i < id THEN docs[i] ELSE docs[i + 1]]
    ELSE [docs EXCEPT ![id] = ApplyUpdate(docs[id], updatePayload)]

\* An update that is applied to every record.
UpdatedDocs_Many(id, updatePayload) ==
    [i \in DOMAIN docs |-> ApplyUpdate(docs[i], updatePayload)]

\* model.findOneAndUpdate({_id: id}, payload, {new: true}): the collection
\* after the update.
UpdatedDocs(id, updatePayload) ==
    [docs EXCEPT ![id] = ApplyUpdate(docs[id], updatePayload)]

\* -------------------------------------------------------------- blob store

\* saveFile reporting a key it has not stored.
SaveFileBlobs_NotStored(key) == blobs

\* FileStorageService.saveFile on success: the unique object name is stored.
SaveFileBlobs(key) == blobs \cup {key}

\* deleteFile reporting a removal it has not made.
DeleteFileBlobs_Kept(key) == blobs

\* FileStorageService.deleteFile on success: removeObject drops the key.
DeleteFileBlobs(key) == blobs \ {key}

\* ---------------------------------------------------------- text extractor

\* TextExtractionService.extractTextFromBuffer: PDF and DOCX buffers are
\* parsed (which can fail on corrupt content), any other type is refused.
SupportedMimetype(mimetype) == mimetype \in {PDF, DOCX}

ExtractedRaw(file) == Text(file.originalname, file.rawlen)

\* String.substring(0, n)
Substring(text, n) == Text(text.src, IF text.len < n THEN text.len ELSE n)

\* A truncation that cuts one character too many.
Truncate_Short(text) ==
    IF text.len > MAX_TEXT_LENGTH THEN Substring(text, MAX_TEXT_LENGTH - 1) ELSE text

\* The truncation of uploadDocument.
Truncate(text) ==
    IF text.len > MAX_TEXT_LENGTH THEN Substring(text, MAX_TEXT_LENGTH) ELSE text

\* ----------------------------------------------------------------- uploads

IdleUpload ==
    [pc |-> "idle", file |-> None, objectKey |-> 0, extractedText |-> None,
     cause |-> NULL, extractCalls |-> 0, createCalls |-> 0, deleteFileCalls |-> 0]

\* What the caller of uploadDocument gets, with the request as it ended.
UploadReturn(u, call, response) ==
    [op |-> "uploadDocument", call |-> call, response |-> response]

\* A create payload whose storagePath is not the key saveFile returned.
CreatePayload_OtherPath(call) ==
    [originalName |-> call.file[1].originalname, mimetype |-> call.file[1].mimetype,
     size |-> call.file[1].size, storagePath |-> 0,
     extractedText |-> call.extractedText[1], analysisStatus |-> PENDING]

\* The create payload of uploadDocument.
CreatePayload(call) ==
    [originalName |-> call.file[1].originalname, mimetype |-> call.file[1].mimetype,
     size |-> call.file[1].size, storagePath |-> call.objectKey,
     extractedText |-> call.extractedText[1], analysisStatus |-> PENDING]

\* The error uploadDocument throws after a compensating delete that went
\* through, by the step that failed.
UploadFailure(cause) ==
    IF cause = "extract"
    THEN InternalServerErrorException("DOCUMENT_UPLOAD_FAILED_TEXT_EXTRACTION")
    ELSE InternalServerErrorException("DOCUMENT_UPLOAD_FAILED_DATABASE_SAVE")

\* The error that leaves uploadDocument when the compensating deleteFile
\* throws inside the catch block.
CompensationFailure(cause) ==
    InternalServerErrorException("FILE_DELETE_FAILED")

\* uploadDocument going on after a failed saveFile.
AfterSaveFile_GoingOn(stored) == "extract"

\* Where uploadDocument goes after saveFile: on to the extraction, or out
\* through the first catch block, which throws.
AfterSaveFile(stored) == IF stored THEN "extract" ELSE "throw"

\* The error of the first catch block.
SaveFailure == InternalServerErrorException("DOCUMENT_UPLOAD_FAILED")

\* uploadDocument is called with one of the given files and saveFile runs:
\* the object is stored under a fresh key, or putObject fails and the request
\* ends at once.
Upload_SaveFileOf(u, files) ==
    /\ LowestFree(uploads, u)
    /\ nextKey <= MaxUploads
    /\ \E file \in files, stored \in BOOLEAN :
        /\ nextKey' = nextKey + 1
        /\ blobs' = IF stored THEN SaveFileBlobs(nextKey) ELSE blobs
        /\ IF AfterSaveFile(stored) = "extract"
           THEN /\ uploads' = [uploads EXCEPT ![u] =
                       [IdleUpload EXCEPT !.pc = "extract", !.file = Some(file),
                                          !.objectKey = nextKey]]
                /\ ret' = NoReturn
           ELSE /\ uploads' = [uploads EXCEPT ![u] = IdleUpload]
                /\ ret' = UploadReturn(u, [IdleUpload EXCEPT !.file = Some(file)],
                              SaveFailure)
    /\ UNCHANGED <<deleteFailures, docs, analyses, deletes, lists>>

Upload_SaveFile(u) == Upload_SaveFileOf(u, Files)

Upload_SaveBoundaryFile(u) == Upload_SaveFileOf(u, BoundaryFiles)

\* Files whose text needs no truncation.
PlainFiles == {file \in Files : file.rawlen <= MAX_TEXT_LENGTH}

Upload_SavePlainFile(u) == Upload_SaveFileOf(u, PlainFiles)

\* extractTextFromBuffer returns and the text is truncated, or it throws and
\* the catch block goes on to delete the stored object.
Upload_Extract(u) ==
    /\ uploads[u].pc = "extract"
    /\ \E parsed \in BOOLEAN :
        LET call == [uploads[u] EXCEPT !.extractCalls = @ + 1] IN
        IF parsed /\ SupportedMimetype(call.file[1].mimetype)
        THEN uploads' = [uploads EXCEPT ![u] =
                 [call EXCEPT !.pc = "create",
                              !.extractedText = Some(Truncate(ExtractedRaw(call.file[1])))]]
        ELSE uploads' = [uploads EXCEPT ![u] =
                 [call EXCEPT !.pc = "deleteFile", !.cause = "extract"]]
    /\ ret' = NoReturn
    /\ UNCHANGED <<blobs, nextKey, deleteFailures, docs, analyses, deletes, lists>>

\* documentModelAction.create stores the record and the request returns it,
\* or it throws (the driver fails or the schema refuses the payload) and the
\* catch block goes on to delete the stored object.
Upload_Create(u) ==
    /\ uploads[u].pc = "create"
    /\ \E created \in BOOLEAN :
        LET call == [uploads[u] EXCEPT !.createCalls = @ + 1] IN
        IF created /\ SchemaValid(CreatePayload(call))
        THEN LET doc == NewDocument(Len(docs) + 1, CreatePayload(call)) IN
             /\ docs' = Append(docs, doc)
             /\ uploads' = [uploads EXCEPT ![u] = IdleUpload]
             /\ ret' = UploadReturn(u, call,
                           ApiResponse("DOCUMENT_UPLOADED", DocumentResponseDto(doc)))
        ELSE /\ docs' = docs
             /\ uploads' = [uploads EXCEPT ![u] =
                    [call EXCEPT !.pc = "deleteFile", !.cause = "create"]]
             /\ ret' = NoReturn
    /\ UNCHANGED <<blobs, nextKey, deleteFailures, analyses, deletes, lists>>

\* The compensating deleteFile of either catch block: the object is removed
\* and the step's own failure is thrown, or removeObject fails and
\* deleteFile's exception leaves the catch block.
Upload_DeleteFile(u) ==
    /\ uploads[u].pc = "deleteFile"
    /\ \E removed \in BOOLEAN :
        LET call == [uploads[u] EXCEPT !.deleteFileCalls = @ + 1] IN
        /\ blobs' = IF removed THEN DeleteFileBlobs(call.objectKey) ELSE blobs
        /\ deleteFailures' = IF removed THEN deleteFailures
                              ELSE deleteFailures \cup {call.objectKey}
        /\ uploads' = [uploads EXCEPT ![u] = IdleUpload]
        /\ ret' = UploadReturn(u, call,
                      IF removed THEN UploadFailure(call.cause)
                      ELSE CompensationFailure(call.cause))
    /\ UNCHANGED <<nextKey, docs, analyses, deletes, lists>>

\* ------------------------------------------------------- analysis client

\* What the OpenRouter endpoint can answer: no answer at all (the connection
\* fails), or an HTTP status with, for 200, the content of the first choice:
\* nothing, text that is not JSON, or a JSON object.
Contents ==
    { [summary |-> "s1", documentType |-> "invoice", extractedMetadata |-> "m1"],
      [summary |-> "s2", documentType |-> "other", extractedMetadata |-> EMPTY_OBJECT],
      [summary |-> "s1", documentType |-> NULL, extractedMetadata |-> "m1"] }

NotJson == [summary |-> "not json"]

Responses ==
    {[kind |-> "network", status |-> 0, content |-> None]}
    \cup {[kind |-> "http", status |-> st, content |-> None] :
             st \in {200, 400, 401, 402, 403, 429, 500}}
    \cup {[kind |-> "http", status |-> 200, content |-> Some(NotJson)]}
    \cup {[kind |-> "http", status |-> 200, content |-> Some(c)] : c \in Contents}

\* JavaScript truthiness of a field of the parsed content.
Truthy(v) == v # NULL /\ v # ""

\* An error thrown by a library (axios, JSON.parse), not by the service.
LibraryError(msg) == [ok |-> FALSE, exception |-> "Error", message |-> msg]

\* The try block of OpenrouterService.analyzeDocument: the value it returns
\* or the exception raised inside it.
OpenrouterTry(resp) ==
    IF resp.kind = "network" THEN LibraryError("ECONNRESET")
    ELSE IF resp.status >= 500 THEN LibraryError("Request failed")
    ELSE IF resp.status = 401 \/ resp.status = 403
         THEN InternalServerErrorException("OPENROUTER_UNAUTHORIZED")
    ELSE IF resp.status = 429
         THEN InternalServerErrorException("OPENROUTER_RATE_LIMIT")
    ELSE IF resp.status = 402
         THEN InternalServerErrorException("OPENROUTER_INSUFFICIENT_CREDITS")
    ELSE IF resp.status >= 400
         THEN InternalServerErrorException("OpenRouter API error")
    ELSE IF resp.content = None
         THEN InternalServerErrorException("LLM_RESPONSE_INVALID")
    ELSE IF resp.content[1] = NotJson THEN LibraryError("SyntaxError")
    ELSE IF \/ ~Truthy(resp.content[1].summary)
            \/ ~Truthy(resp.content[1].documentType)
            \/ ~Truthy(resp.content[1].extractedMetadata)
         THEN InternalServerErrorException("LLM_RESPONSE_INVALID")
    ELSE [ok |-> TRUE, value |-> resp.content[1]]

\* The catch block of OpenrouterService.analyzeDocument: whatever was raised
\* inside the try block, its own exceptions included, is logged and replaced.
OpenrouterCatch(error) == InternalServerErrorException("LLM_ANALYSIS_FAILED")

\* OpenrouterService.analyzeDocument
OpenrouterAnalyzeDocument(resp) ==
    LET r == OpenrouterTry(resp) IN IF r.ok THEN r ELSE OpenrouterCatch(r)

\* ---------------------------------------------------------------- analyses

\* Identifiers a caller can send: those the store hands out, and a string
\* that is no ObjectId (0).
RequestIds == 0..MaxUploads

\* A check that lets every id through.
IsValidObjectId_Any(id) == TRUE

\* mongoose.isValidObjectId
IsValidObjectId(id) == id # 0

\* A request of analyzeDocument: its arguments, what it keeps of the record
\* it looked up (the text it sends to the analysis client), the client's
\* answer, and for the properties: view, the status the request last read
\* from or wrote to the record; reAnalysis, whether the lookup found the
\* record COMPLETED; and its calls of get, of the client and of update so far.
IdleAnalyze ==
    [pc |-> "idle", id |-> 0, forceReAnalysis |-> FALSE, extractedText |-> None,
     view |-> NULL, reAnalysis |-> FALSE,
     analysisResult |-> None, llmError |-> None,
     getCalls |-> 0, llmCalls |-> 0, updateCalls |-> 0]

\* What the caller of analyzeDocument gets, with the request as it ended.
AnalyzeReturn(a, call, response) ==
    [op |-> "analyzeDocument", call |-> call, response |-> response]

\* A request that calls the analysis client as soon as it has the record.
Looked_ClientCalled(call, doc) ==
    [call EXCEPT !.extractedText = Some(doc.extractedText),
                 !.view = doc.analysisStatus,
                 !.reAnalysis = (doc.analysisStatus = COMPLETED),
                 !.llmCalls = 1]

\* The request once the lookup has returned the record.
Looked(call, doc) ==
    [call EXCEPT !.extractedText = Some(doc.extractedText),
                 !.view = doc.analysisStatus,
                 !.reAnalysis = (doc.analysisStatus = COMPLETED)]

\* A short-circuit that is also taken on a record that is ANALYZING.
AlreadyCompleted_OrAnalyzing(document, forceReAnalysis) ==
    document.analysisStatus \in {COMPLETED, ANALYZING} /\ ~forceReAnalysis

\* analyzeDocument without its short-circuit.
AlreadyCompleted_Never(document, forceReAnalysis) == FALSE

\* The short-circuit taken on the forced requests instead of the others.
AlreadyCompleted_OnForce(document, forceReAnalysis) ==
    document.analysisStatus = COMPLETED /\ forceReAnalysis

\* The short-circuit test of analyzeDocument.
AlreadyCompleted(document, forceReAnalysis) ==
    document.analysisStatus = COMPLETED /\ ~forceReAnalysis

\* A catch block that clears the results of the earlier analysis.
FailedPayload_Clearing ==
    [analysisStatus |-> FAILED, summary |-> NULL, documentType |-> NULL,
     extractedMetadata |-> EMPTY_OBJECT]

\* A catch block that puts the record back to PENDING.
FailedPayload_Pending == [analysisStatus |-> PENDING]

\* A final update that also renames the file.
CompletedPayload_Renaming(analysisResult) ==
    [summary |-> analysisResult.summary,
     documentType |-> analysisResult.documentType,
     extractedMetadata |-> analysisResult.extractedMetadata,
     analysisStatus |-> COMPLETED,
     originalName |-> "renamed"]

\* A final update that stores the results without the metadata.
CompletedPayload_NoMetadata(analysisResult) ==
    [summary |-> analysisResult.summary,
     documentType |-> analysisResult.documentType,
     analysisStatus |-> COMPLETED]

\* A final update that stores the status without the results.
CompletedPayload_StatusOnly(analysisResult) == [analysisStatus |-> COMPLETED]

\* The update payloads of analyzeDocument.
AnalyzingPayload == [analysisStatus |-> ANALYZING]

FailedPayload == [analysisStatus |-> FAILED]

CompletedPayload(analysisResult) ==
    [summary |-> analysisResult.summary,
     documentType |-> analysisResult.documentType,
     extractedMetadata |-> analysisResult.extractedMetadata,
     analysisStatus |-> COMPLETED]

\* An update whose every failure is wrapped as a database failure.
UpdateError_Wrapped(id, applied) ==
    InternalServerErrorException("DB_UPDATE_FAILED")

\* What AbstractModelAction.update throws when it does not return the
\* updated record: no record matched, or the driver failed.
UpdateError(id, applied) ==
    IF applied THEN NotFoundException("DOCUMENT_NOT_FOUND_FOR_UPDATE")
    ELSE InternalServerErrorException("DB_UPDATE_FAILED")

\* analyzeDocument is called with one of the given ids: the id is checked,
\* the record is looked up and the short-circuit is taken or the request
\* goes on to mark the record.
Analyze_GetOf(a, ids) ==
    /\ LowestFree(analyses, a)
    /\ \E id \in ids, forceReAnalysis \in BOOLEAN, read \in BOOLEAN :
        LET early == [IdleAnalyze EXCEPT !.id = id]
            asked == [early EXCEPT !.getCalls = 1]
            call == [asked EXCEPT !.forceReAnalysis = forceReAnalysis]
            document == GetNotDeleted(id)
        IN
        IF ~IsValidObjectId(id)
        THEN /\ ret' = AnalyzeReturn(a, early, BadRequestException("DOCUMENT_INVALID_ID"))
             /\ analyses' = analyses
        ELSE IF ~read
        THEN /\ ret' = AnalyzeReturn(a, asked, InternalServerErrorException("DB_GET_FAILED"))
             /\ analyses' = analyses
        ELSE IF document = None
        THEN /\ ret' = AnalyzeReturn(a, asked, NotFoundException("DOCUMENT_NOT_FOUND"))
             /\ analyses' = analyses
        ELSE IF AlreadyCompleted(document[1], forceReAnalysis)
        THEN /\ ret' = AnalyzeReturn(a, Looked(call, document[1]),
                           ApiResponse("ANALYSIS_ALREADY_COMPLETED",
                                       DocumentResponseDto(document[1])))
             /\ analyses' = analyses
        ELSE /\ ret' = NoReturn
             /\ analyses' = [analyses EXCEPT ![a] =
                    [Looked(call, document[1]) EXCEPT !.pc = "setAnalyzing"]]
    /\ UNCHANGED <<blobs, nextKey, deleteFailures, docs, uploads, deletes, lists>>

Analyze_Get(a) == Analyze_GetOf(a, RequestIds)

\* Request a is for the record with _id a.
Analyze_GetOwn(a) == Analyze_GetOf(a, {a})

\* The update that marks the record ANALYZING.
Analyze_SetAnalyzing(a) ==
    /\ analyses[a].pc = "setAnalyzing"
    /\ \E applied \in BOOLEAN :
        LET call == [analyses[a] EXCEPT !.updateCalls = @ + 1] IN
        IF applied /\ call.id \in Ids
        THEN /\ docs' = UpdatedDocs(call.id, AnalyzingPayload)
             /\ analyses' = [analyses EXCEPT ![a] =
                    [call EXCEPT !.pc = "llm", !.view = ANALYZING]]
             /\ ret' = NoReturn
        ELSE /\ docs' = docs
             /\ analyses' = [analyses EXCEPT ![a] = IdleAnalyze]
             /\ ret' = AnalyzeReturn(a, call, UpdateError(call.id, applied))
    /\ UNCHANGED <<blobs, nextKey, deleteFailures, uploads, deletes, lists>>

\* What OpenrouterService.analyzeDocument gives back to analyzeDocument,
\* with the answer of the endpoint it had.
ClientReturn(resp, response) ==
    [op |-> "openrouterService.analyzeDocument", resp |-> resp, response |-> response]

\* The call of the analysis client on the text read with the record, the
\* endpoint giving one of the given answers.
Analyze_LlmOf(a, responses) ==
    /\ analyses[a].pc = "llm"
    /\ \E resp \in responses :
        LET r == OpenrouterAnalyzeDocument(resp)
            call == [analyses[a] EXCEPT !.llmCalls = @ + 1]
        IN
        /\ analyses' = [analyses EXCEPT ![a] =
               IF r.ok
               THEN [call EXCEPT !.pc = "complete", !.analysisResult = Some(r.value)]
               ELSE [call EXCEPT !.pc = "setFailed", !.llmError = Some(r)]]
        /\ ret' = ClientReturn(resp, r)
    /\ UNCHANGED <<blobs, nextKey, deleteFailures, docs, uploads, deletes, lists>>

Analyze_Llm(a) == Analyze_LlmOf(a, Responses)

\* The endpoint is out of reach or answers with a complete result.
PlainResponses ==
    {resp \in Responses : resp.kind = "network" \/ OpenrouterAnalyzeDocument(resp).ok}

Analyze_LlmPlain(a) == Analyze_LlmOf(a, PlainResponses)

\* The endpoint answers with a JSON object that has the three fields, the
\* documentType being one of the enum or another string.
AnyTypeResponses ==
    {[kind |-> "http", status |-> 200,
      content |-> Some([summary |-> "s1", documentType |-> t, extractedMetadata |-> "m1"])] :
        t \in {"invoice", "memo"}}

Analyze_LlmAnyType(a) == Analyze_LlmOf(a, AnyTypeResponses \cup PlainResponses)

\* The catch block after a failed analysis: the record is marked FAILED and
\* the client's error is thrown again, or the update itself throws.
Analyze_SetFailed(a) ==
    /\ analyses[a].pc = "setFailed"
    /\ \E applied \in BOOLEAN :
        LET call == [analyses[a] EXCEPT !.updateCalls = @ + 1] IN
        /\ IF applied /\ call.id \in Ids
           THEN /\ docs' = UpdatedDocs(call.id, FailedPayload)
                /\ ret' = AnalyzeReturn(a, call, call.llmError[1])
           ELSE /\ docs' = docs
                /\ ret' = AnalyzeReturn(a, call, UpdateError(call.id, applied))
        /\ analyses' = [analyses EXCEPT ![a] = IdleAnalyze]
    /\ UNCHANGED <<blobs, nextKey, deleteFailures, uploads, deletes, lists>>

\* The update that stores the results with status COMPLETED; the updated
\* record is returned.
Analyze_Complete(a) ==
    /\ analyses[a].pc = "complete"
    /\ \E applied \in BOOLEAN :
        LET call == [analyses[a] EXCEPT !.updateCalls = @ + 1] IN
        /\ IF applied /\ call.id \in Ids
           THEN /\ docs' = UpdatedDocs(call.id, CompletedPayload(call.analysisResult[1]))
                /\ ret' = AnalyzeReturn(a, call,
                              ApiResponse("ANALYSIS_COMPLETED",
                                          DocumentResponseDto(docs'[call.id])))
           ELSE /\ docs' = docs
                /\ ret' = AnalyzeReturn(a, call, UpdateError(call.id, applied))
        /\ analyses' = [analyses EXCEPT ![a] = IdleAnalyze]
    /\ UNCHANGED <<blobs, nextKey, deleteFailures, uploads, deletes, lists>>

\* ----------------------------------------------------------------- deletes

IdleDelete == [pc |-> "idle", id |-> 0, getCalls |-> 0, updateCalls |-> 0]

DeleteReturn(d, call, response) ==
    [op |-> "deleteDocument", call |-> call, response |-> response]

\* The update payload of deleteDocument.
DeletePayload == [isDeleted |-> TRUE, deletedAt |-> "Date"]

\* deleteDocument is called: the id is checked and the record looked up.
Delete_Get(d) ==
    /\ LowestFree(deletes, d)
    /\ \E id \in RequestIds, read \in BOOLEAN :
        LET early == [IdleDelete EXCEPT !.id = id]
            call == [early EXCEPT !.getCalls = 1]
        IN
        IF ~IsValidObjectId(id)
        THEN /\ ret' = DeleteReturn(d, early, BadRequestException("DOCUMENT_INVALID_ID"))
             /\ deletes' = deletes
        ELSE IF ~read
        THEN /\ ret' = DeleteReturn(d, call, InternalServerErrorException("DB_GET_FAILED"))
             /\ deletes' = deletes
        ELSE IF GetNotDeleted(id) = None
        THEN /\ ret' = DeleteReturn(d, call, NotFoundException("DOCUMENT_NOT_FOUND"))
             /\ deletes' = deletes
        ELSE /\ ret' = NoReturn
             /\ deletes' = [deletes EXCEPT ![d] = [call EXCEPT !.pc = "update"]]
    /\ UNCHANGED <<blobs, nextKey, deleteFailures, docs, uploads, analyses, lists>>

\* The update that marks the record deleted.
Delete_Update(d) ==
    /\ deletes[d].pc = "update"
    /\ \E applied \in BOOLEAN :
        LET call == [deletes[d] EXCEPT !.updateCalls = @ + 1] IN
        /\ IF applied /\ call.id \in Ids
           THEN /\ docs' = UpdatedDocs(call.id, DeletePayload)
                /\ ret' = DeleteReturn(d, call, ApiResponse("DOCUMENT_DELETED", None))
           ELSE /\ docs' = docs
                /\ ret' = DeleteReturn(d, call, UpdateError(call.id, applied))
        /\ deletes' = [deletes EXCEPT ![d] = IdleDelete]
    /\ UNCHANGED <<blobs, nextKey, deleteFailures, uploads, analyses, lists>>

\* -------------------------------------------------------------------- gets

IdleGet == [id |-> 0, getCalls |-> 0]

GetReturn(call, response) ==
    [op |-> "getDocument", call |-> call, response |-> response]

\* getDocument: the id is checked, the record is looked up and returned.
GetDocument ==
    /\ \E id \in RequestIds, read \in BOOLEAN :
        LET early == [IdleGet EXCEPT !.id = id]
            call == [early EXCEPT !.getCalls = 1]
            document == GetNotDeleted(id)
        IN
        ret' = IF ~IsValidObjectId(id)
               THEN GetReturn(early, BadRequestException("DOCUMENT_INVALID_ID"))
               ELSE IF ~read
               THEN GetReturn(call, InternalServerErrorException("DB_GET_FAILED"))
               ELSE IF document = None
               THEN GetReturn(call, NotFoundException("DOCUMENT_NOT_FOUND"))
               ELSE GetReturn(call, ApiResponse("DOCUMENT_FETCHED",
                                                DocumentResponseDto(document[1])))
    /\ UNCHANGED <<blobs, nextKey, deleteFailures, docs, uploads, analyses, deletes, lists>>

\* ------------------------------------------------------------------- lists

\* Queries of listDocuments: page and limit may be left out; a filter that
\* is left out is NULL, and any string, the empty one too, passes IsString.
\* These queries filter and leave the paging out.
FilterQueries ==
    [page : {None}, limit : {None},
     analysisStatus : {NULL, "", COMPLETED},
     documentType : {NULL, "invoice"}]

\* The defaults of the destructuring in listDocuments and list.
PageOf(query) == IF query.page = None THEN 1 ELSE query.page[1]

LimitOf(query) == IF query.limit = None THEN 20 ELSE query.limit[1]

\* A filter made of the caller's filters alone.
FilterOptions_CallerOnly(query) ==
    [f \in (IF Truthy(query.analysisStatus) THEN {"analysisStatus"} ELSE {})
             \cup (IF Truthy(query.documentType) THEN {"documentType"} ELSE {}) |->
        query[f]]

\* The filter listDocuments builds: isDeleted false, and each filter of the
\* query that is truthy.
FilterOptions(query) ==
    [f \in {"isDeleted"}
             \cup (IF Truthy(query.analysisStatus) THEN {"analysisStatus"} ELSE {})
             \cup (IF Truthy(query.documentType) THEN {"documentType"} ELSE {}) |->
        IF f = "isDeleted" THEN FALSE ELSE query[f]]

\* A record matches a filter of model.find: each field of the filter is the
\* record's.
Matches(doc, filterOptions) ==
    \A f \in DOMAIN filterOptions : doc[f] = filterOptions[f]

Matching(filterOptions) == {i \in Ids : Matches(docs[i], filterOptions)}

\* sort({createdAt: -1}): the latest record first.
RECURSIVE SortedDesc(_)
SortedDesc(ids) ==
    IF ids = {} THEN <<>>
    ELSE LET latest == CHOOSE i \in ids : \A j \in ids : j <= i
         IN <<latest>> \o SortedDesc(ids \ {latest})

Min(a, b) == IF a < b THEN a ELSE b

\* query.skip(skip).limit(limit).exec() of list, as DTOs.
Page(filterOptions, page, limit) ==
    LET found == SortedDesc(Matching(filterOptions))
        skip == (page - 1) * limit
        taken == SubSeq(found, skip + 1, Min(skip + limit, Len(found)))
    IN [n \in 1..Len(taken) |-> DocumentResponseDto(docs[taken[n]])]

\* A page count that is rounded down.
Ceil_Floor(total, limit) == total \div limit

\* Math.ceil(total / limit)
Ceil(total, limit) == (total + limit - 1) \div limit

PaginationMeta(total, page, limit) ==
    [total |-> total, page |-> page, limit |-> limit,
     total_pages |-> Ceil(total, limit),
     has_next |-> page < Ceil(total, limit),
     has_previous |-> page > 1]

PaginatedResponse(msg, data, pagination) ==
    [ok |-> TRUE, message |-> msg, data |-> data, pagination |-> pagination]

\* A request of listDocuments: find and countDocuments are sent together
\* and the store serves them one after the other, in either order.
IdleList == [pc |-> "idle", query |-> None, payload |-> None, total |-> None]

ListReturn(l, call, response) ==
    [op |-> "listDocuments", call |-> call, response |-> response]

ListFailure == InternalServerErrorException("DB_LIST_FAILED")

\* What listDocuments returns once both answers are there.
Listed(call) ==
    PaginatedResponse("DOCUMENTS_FETCHED", call.payload[1],
        PaginationMeta(call.total[1], PageOf(call.query[1]), LimitOf(call.query[1])))

\* The store serves find for a request with one of the given queries.
List_FindOf(l, queries) ==
    /\ \/ LowestFree(lists, l)
       \/ lists[l].pc = "pending" /\ lists[l].payload = None
    /\ \E query \in (IF lists[l].pc = "idle" THEN queries ELSE {lists[l].query[1]}),
          read \in BOOLEAN :
        LET filterOptions == FilterOptions(query)
            call == [lists[l] EXCEPT !.pc = "pending", !.query = Some(query),
                        !.payload = Some(Page(filterOptions, PageOf(query), LimitOf(query)))]
        IN
        IF ~read
        THEN /\ lists' = [lists EXCEPT ![l] = IdleList]
             /\ ret' = ListReturn(l, [IdleList EXCEPT !.query = Some(query)], ListFailure)
        ELSE IF call.total = None
        THEN /\ lists' = [lists EXCEPT ![l] = call]
             /\ ret' = NoReturn
        ELSE /\ lists' = [lists EXCEPT ![l] = IdleList]
             /\ ret' = ListReturn(l, call, Listed(call))
    /\ UNCHANGED <<blobs, nextKey, deleteFailures, docs, uploads, analyses, deletes>>

List_Find(l) == List_FindOf(l, FilterQueries)

\* The store serves countDocuments for a request with one of the given
\* queries.
List_CountOf(l, queries) ==
    /\ \/ LowestFree(lists, l)
       \/ lists[l].pc = "pending" /\ lists[l].total = None
    /\ \E query \in (IF lists[l].pc = "idle" THEN queries ELSE {lists[l].query[1]}),
          read \in BOOLEAN :
        LET filterOptions == FilterOptions(query)
            call == [lists[l] EXCEPT !.pc = "pending", !.query = Some(query),
                        !.total = Some(Cardinality(Matching(filterOptions)))]
        IN
        IF ~read
        THEN /\ lists' = [lists EXCEPT ![l] = IdleList]
             /\ ret' = ListReturn(l, [IdleList EXCEPT !.query = Some(query)], ListFailure)
        ELSE IF call.payload = None
        THEN /\ lists' = [lists EXCEPT ![l] = call]
             /\ ret' = NoReturn
        ELSE /\ lists' = [lists EXCEPT ![l] = IdleList]
             /\ ret' = ListReturn(l, call, Listed(call))
    /\ UNCHANGED <<blobs, nextKey, deleteFailures, docs, uploads, analyses, deletes>>

List_Count(l) == List_CountOf(l, FilterQueries)

\* Queries that ask for a page, of all records or of the PENDING ones.
PagingQueries ==
    [page : {None, Some(1), Some(2), Some(3)},
     limit : {None, Some(1), Some(2)},
     analysisStatus : {NULL, PENDING},
     documentType : {NULL}]

List_FindPage(l) == List_FindOf(l, PagingQueries)

List_CountPage(l) == List_CountOf(l, PagingQueries)

\* ------------------------------------------------------------ store update

\* Update payloads the service passes to the store.
UpdatePayloads == {AnalyzingPayload, FailedPayload, DeletePayload}

StoreUpdateReturn(call, response) ==
    [op |-> "documentModelAction.update", call |-> call, response |-> response]

\* AbstractModelAction.update called on its own with {_id: id}: the driver
\* answers or throws (it throws for an id it cannot cast); when it answers
\* with no record, NotFoundException is thrown and passes the catch block.
Store_Update ==
    \E id \in RequestIds, updatePayload \in UpdatePayloads, answered \in BOOLEAN :
        LET call == [id |-> id, updatePayload |-> updatePayload, answered |-> answered]
            applied == answered /\ IsValidObjectId(id)
        IN
        /\ IF applied /\ id \in Ids
           THEN /\ docs' = UpdatedDocs(id, updatePayload)
                /\ ret' = StoreUpdateReturn(call, [ok |-> TRUE, data |-> docs'[id]])
           ELSE /\ docs' = docs
                /\ ret' = StoreUpdateReturn(call, UpdateError(id, applied))
        /\ UNCHANGED <<blobs, nextKey, deleteFailures, uploads, analyses, deletes, lists>>

\* -------------------------------------------------------------------- spec

Init ==
    /\ blobs = {}
    /\ deleteFailures = {}
    /\ nextKey = 1
    /\ docs = <<>>
    /\ uploads = [u \in UploadCalls |-> IdleUpload]
    /\ analyses = [a \in AnalyzeCalls |-> IdleAnalyze]
    /\ deletes = [d \in DeleteCalls |-> IdleDelete]
    /\ lists = [l \in ListCalls |-> IdleList]
    /\ ret = NoReturn

\* One record at a time: an upload is admitted while the collection is empty
\* and no other upload is in flight.
SingleRecord == docs = <<>> /\ \A u \in UploadCalls : uploads[u].pc = "idle"

Next ==
    \/ \E u \in UploadCalls : SingleRecord /\ Upload_SaveFile(u)
    \/ \E u \in UploadCalls : Upload_Extract(u)
    \/ \E u \in UploadCalls : Upload_Create(u)
    \/ \E u \in UploadCalls : Upload_DeleteFile(u)
    \/ \E a \in AnalyzeCalls : Analyze_Get(a)
    \/ \E a \in AnalyzeCalls : Analyze_SetAnalyzing(a)
    \/ \E a \in AnalyzeCalls : Analyze_Llm(a)
    \/ \E a \in AnalyzeCalls : Analyze_SetFailed(a)
    \/ \E a \in AnalyzeCalls : Analyze_Complete(a)
    \/ \E d \in DeleteCalls : Delete_Get(d)
    \/ \E d \in DeleteCalls : Delete_Update(d)

Spec == Init /\ [][Next]_vars

\* Concurrent uploads and deletes of several records, without analyses.
NextUpload ==
    \/ \E u \in UploadCalls : Upload_SaveFile(u)
    \/ \E u \in UploadCalls : Upload_Extract(u)
    \/ \E u \in UploadCalls : Upload_Create(u)
    \/ \E u \in UploadCalls : Upload_DeleteFile(u)
    \/ \E d \in DeleteCalls : Delete_Get(d)
    \/ \E d \in DeleteCalls : Delete_Update(d)

UploadSpec == Init /\ [][NextUpload]_vars

\* One upload and one analysis at a time, over up to two records, with
\* deletes, gets and lists; a get is served and a list starts when no upload
\* and no analysis is in flight, and until a list returns only deletes run
\* beside it.
OneUpload == \A u \in UploadCalls : uploads[u].pc = "idle"

OneAnalysis == \A a \in AnalyzeCalls : analyses[a].pc = "idle"

NoList == \A l \in ListCalls : lists[l].pc = "idle"

Quiet == OneUpload /\ OneAnalysis

NextRead ==
    \/ \E u \in UploadCalls : NoList /\ OneUpload /\ Upload_SaveFile(u)
    \/ \E u \in UploadCalls : Upload_Extract(u)
    \/ \E u \in UploadCalls : Upload_Create(u)
    \/ \E u \in UploadCalls : Upload_DeleteFile(u)
    \/ \E a \in AnalyzeCalls : NoList /\ OneAnalysis /\ Analyze_Get(a)
    \/ \E a \in AnalyzeCalls : Analyze_SetAnalyzing(a)
    \/ \E a \in AnalyzeCalls : Analyze_LlmPlain(a)
    \/ \E a \in AnalyzeCalls : Analyze_SetFailed(a)
    \/ \E a \in AnalyzeCalls : Analyze_Complete(a)
    \/ \E d \in DeleteCalls : Delete_Get(d)
    \/ \E d \in DeleteCalls : Delete_Update(d)
    \/ NoList /\ Quiet /\ GetDocument
    \/ \E l \in ListCalls : Quiet /\ List_Find(l)
    \/ \E l \in ListCalls : Quiet /\ List_Count(l)

ReadSpec == Init /\ [][NextRead]_vars

\* Uploads of files around the text limit, one at a time, and gets.
NextBoundary ==
    \/ \E u \in UploadCalls : OneUpload /\ Upload_SaveBoundaryFile(u)
    \/ \E u \in UploadCalls : Upload_Extract(u)
    \/ \E u \in UploadCalls : Upload_Create(u)
    \/ \E u \in UploadCalls : Upload_DeleteFile(u)
    \/ GetDocument

BoundarySpec == Init /\ [][NextBoundary]_vars

\* Analyses and deletes that overlap on up to two records, each analyze
\* request on a record of its own; a record is uploaded while no other
\* request is in flight.
NoDelete == \A d \in DeleteCalls : deletes[d].pc = "idle"

NextPair ==
    \/ \E u \in UploadCalls : Quiet /\ NoDelete /\ Upload_SavePlainFile(u)
    \/ \E u \in UploadCalls : Upload_Extract(u)
    \/ \E u \in UploadCalls : Upload_Create(u)
    \/ \E u \in UploadCalls : Upload_DeleteFile(u)
    \/ \E a \in AnalyzeCalls : OneUpload /\ Analyze_GetOwn(a)
    \/ \E a \in AnalyzeCalls : Analyze_SetAnalyzing(a)
    \/ \E a \in AnalyzeCalls : Analyze_LlmPlain(a)
    \/ \E a \in AnalyzeCalls : Analyze_SetFailed(a)
    \/ \E a \in AnalyzeCalls : Analyze_Complete(a)
    \/ \E d \in DeleteCalls : OneUpload /\ Delete_Get(d)
    \/ \E d \in DeleteCalls : Delete_Update(d)

PairSpec == Init /\ [][NextPair]_vars

\* Pages listed of up to MaxUploads records, beside uploads and deletes.
NextPaging ==
    \/ \E u \in UploadCalls : NoList /\ OneUpload /\ Upload_SavePlainFile(u)
    \/ \E u \in UploadCalls : Upload_Extract(u)
    \/ \E u \in UploadCalls : Upload_Create(u)
    \/ \E u \in UploadCalls : Upload_DeleteFile(u)
    \/ \E d \in DeleteCalls : Delete_Get(d)
    \/ \E d \in DeleteCalls : Delete_Update(d)
    \/ \E l \in ListCalls : OneUpload /\ List_FindPage(l)
    \/ \E l \in ListCalls : OneUpload /\ List_CountPage(l)

PagingSpec == Init /\ [][NextPaging]_vars

\* Analyses of one record, one at a time, the endpoint answering with any
\* documentType.
NextResult ==
    \/ \E u \in UploadCalls : SingleRecord /\ Upload_SaveFile(u)
    \/ \E u \in UploadCalls : Upload_Extract(u)
    \/ \E u \in UploadCalls : Upload_Create(u)
    \/ \E u \in UploadCalls : Upload_DeleteFile(u)
    \/ \E a \in AnalyzeCalls : OneAnalysis /\ Analyze_Get(a)
    \/ \E a \in AnalyzeCalls : Analyze_SetAnalyzing(a)
    \/ \E a \in AnalyzeCalls : Analyze_LlmAnyType(a)
    \/ \E a \in AnalyzeCalls : Analyze_SetFailed(a)
    \/ \E a \in AnalyzeCalls : Analyze_Complete(a)

ResultSpec == Init /\ [][NextResult]_vars

\* Updates sent to the store directly, between uploads.
NextStore ==
    \/ \E u \in UploadCalls : OneUpload /\ Upload_SaveFile(u)
    \/ \E u \in UploadCalls : Upload_Extract(u)
    \/ \E u \in UploadCalls : Upload_Create(u)
    \/ \E u \in UploadCalls : Upload_DeleteFile(u)
    \/ Store_Update

StoreSpec == Init /\ [][NextStore]_vars

\* -------------------------------------------------------------- properties

\* The status changes of the analysis state machine; forced tells whether
\* the request that makes the change has forceReAnalysis = true.
ListedChange(old, new, forced) ==
    \/ old = PENDING /\ new = ANALYZING
    \/ old = ANALYZING /\ new \in {COMPLETED, FAILED}
    \/ old = COMPLETED /\ new = ANALYZING /\ forced
    \/ old = FAILED /\ new = ANALYZING

\* The analyze request that takes this step on record i.
Stepping(a, i) ==
    /\ analyses[a].pc # "idle"
    /\ analyses'[a] # analyses[a]
    /\ analyses[a].id = i

\* The analyze requests in flight on record i.
InFlight(i) == {a \in AnalyzeCalls : analyses[a].pc # "idle" /\ analyses[a].id = i}

\* A request of analyzeDocument returns in this step.
AnalyzeReturns == ret.op = "analyzeDocument"

\* A request of uploadDocument returns in this step.
UploadReturns == ret.op = "uploadDocument"

\* Some record's storagePath is k.
Referenced(k) == \E i \in Ids : docs[i].storagePath = k

\* C1 as stated: under any interleaving of upload, analyze and delete calls,
\* every change of a record's analysisStatus is PENDING->ANALYZING,
\* ANALYZING->COMPLETED, ANALYZING->FAILED, COMPLETED->ANALYZING by a request
\* with forceReAnalysis = true, or FAILED->ANALYZING.
C1_EveryChangeListed ==
    [][\A i \in Ids :
          docs'[i].analysisStatus # docs[i].analysisStatus =>
              \E a \in AnalyzeCalls :
                  /\ Stepping(a, i)
                  /\ ListedChange(docs[i].analysisStatus, docs'[i].analysisStatus,
                                  analyses[a].forceReAnalysis)]_vars

\* C1 amended: every change of a record's analysisStatus is made by an
\* update of an analyze request on that record, and it is one of the listed
\* changes whenever the stored status is still the one that request last
\* read or wrote (no other request changed it in between).
C1_ChangeOnCurrentStatusListed ==
    [][\A i \in Ids :
          docs'[i].analysisStatus # docs[i].analysisStatus =>
              \E a \in AnalyzeCalls :
                  /\ Stepping(a, i)
                  /\ analyses[a].view = docs[i].analysisStatus =>
                         ListedChange(docs[i].analysisStatus, docs'[i].analysisStatus,
                                      analyses[a].forceReAnalysis)]_vars

\* Two requests on one record, one of which has finished the analysis that
\* the other, started before, is about to mark ANALYZING with a stale view.
C1_Witness ==
    \E a \in AnalyzeCalls :
        /\ analyses[a].pc = "setAnalyzing"
        /\ analyses[a].view = PENDING
        /\ ~analyses[a].forceReAnalysis
        /\ docs[analyses[a].id].analysisStatus = COMPLETED

\* C2: a request that finds the record COMPLETED and has forceReAnalysis =
\* false returns in the same step with the record's current data and the
\* 'already completed' message, has called neither the analysis client nor
\* update, and leaves every record as it was; no such request goes on.
C2_ShortCircuitReadsOnly ==
    [][/\ \A a \in AnalyzeCalls :
              analyses'[a].pc # "idle" =>
                  ~(analyses'[a].reAnalysis /\ ~analyses'[a].forceReAnalysis)
       /\ (ret'.op = "analyzeDocument" /\ ret'.call.reAnalysis
                                       /\ ~ret'.call.forceReAnalysis) =>
              /\ ret'.response = ApiResponse("ANALYSIS_ALREADY_COMPLETED",
                                     DocumentResponseDto(docs[ret'.call.id]))
              /\ ret'.response.data.analysisStatus = COMPLETED
              /\ ret'.call.llmCalls = 0
              /\ ret'.call.updateCalls = 0
              /\ docs' = docs
              /\ blobs' = blobs]_vars

\* The short-circuit is taken on a record that holds results.
C2_Witness ==
    /\ AnalyzeReturns
    /\ ret.response.ok
    /\ ret.response.message = "ANALYSIS_ALREADY_COMPLETED"
    /\ ret.response.data.summary # NULL

C5_NotLeftAnalyzing ==
    (AnalyzeReturns /\ ret.call.id \in Ids /\ InFlight(ret.call.id) = {}) =>
        docs[ret.call.id].analysisStatus # ANALYZING

\* C6: when uploadDocument returns after a failed extraction, create was
\* never called, no record has the stored object's key, the compensating
\* deleteFile was called once and, its removeObject having gone through, the
\* object is no longer in the bucket.
C6_ExtractionFailureCompensated ==
    (UploadReturns /\ ret.call.cause = "extract") =>
        LET call == ret.call IN
        /\ call.extractCalls = 1
        /\ call.createCalls = 0
        /\ ~Referenced(call.objectKey)
        /\ call.deleteFileCalls = 1
        /\ call.objectKey \notin deleteFailures => call.objectKey \notin blobs

\* An upload returns the extraction failure with its object removed.
C6_Witness ==
    /\ UploadReturns
    /\ ret.call.cause = "extract"
    /\ ret.call.objectKey \notin blobs
    /\ ret.response = UploadFailure("extract")

\* C7: once every upload has returned, and no compensating deleteFile has
\* failed, every object in the bucket is the storagePath of a record; and an
\* upload whose create failed, its deleteFile having gone through, returns
\* the database-save failure with its object removed.
C7_NoOrphanAfterUploads ==
    /\ (deleteFailures = {} /\ \A u \in UploadCalls : uploads[u].pc = "idle") =>
           \A k \in blobs : Referenced(k)
    /\ (UploadReturns /\ ret.call.cause = "create"
                      /\ ret.call.objectKey \notin deleteFailures) =>
           /\ ret.call.objectKey \notin blobs
           /\ ~Referenced(ret.call.objectKey)
           /\ ret.response =
                  InternalServerErrorException("DOCUMENT_UPLOAD_FAILED_DATABASE_SAVE")

\* Two uploads have run together: one stored its record, the other's create
\* failed and its object was removed.
C7_Witness ==
    /\ UploadReturns
    /\ ret.call.cause = "create"
    /\ deleteFailures = {}
    /\ \A u \in UploadCalls : uploads[u].pc = "idle"
    /\ Len(docs) = 1
    /\ docs[1].storagePath < ret.call.objectKey
    /\ Cardinality(blobs) = 1

\* C8 as stated: when the compensating deleteFile itself fails, the caller
\* of uploadDocument still gets the failure of the step that failed (the
\* extraction or the create).
C8_DeleteFailureNotMasking ==
    (UploadReturns /\ ret.call.objectKey \in deleteFailures) =>
        ret.response = UploadFailure(ret.call.cause)

\* C9: a step in which saveFile fails (a key was drawn and nothing stored)
\* returns the upload failure to the caller, with the extractor, create and
\* deleteFile never called, no record created and the request over.
C9_SaveFailureAborts ==
    [][(nextKey' # nextKey /\ blobs' = blobs) =>
           /\ ret'.op = "uploadDocument"
           /\ ret'.response = InternalServerErrorException("DOCUMENT_UPLOAD_FAILED")
           /\ ret'.call.extractCalls = 0
           /\ ret'.call.createCalls = 0
           /\ ret'.call.deleteFileCalls = 0
           /\ docs' = docs
           /\ uploads' = uploads
           /\ deleteFailures' = deleteFailures]_vars

\* An upload is refused for a failed saveFile while another is in flight.
C9_Witness ==
    /\ UploadReturns
    /\ ret.response = SaveFailure
    /\ \E u \in UploadCalls : uploads[u].pc = "create"

\* C10: in every state, the storagePath of every record, soft-deleted or
\* not, is the key of an object in the bucket.
C10_StoragePathExists ==
    \A i \in Ids : docs[i].storagePath \in blobs

\* A record that was analysed and then soft-deleted, after an earlier upload
\* had failed and removed its own object.
C10_Witness ==
    \E i \in Ids :
        /\ docs[i].isDeleted
        /\ docs[i].analysisStatus = COMPLETED
        /\ docs[i].storagePath = 2
        /\ blobs = {2}

\* An upload returns the record it created.
UploadSucceeds == UploadReturns /\ ret.response.ok

\* C11: the record an upload stores holds, for a raw extraction longer than
\* MAX_TEXT_LENGTH, exactly the first MAX_TEXT_LENGTH characters of it, and
\* otherwise the raw extraction itself; and no stored record has an
\* extractedText longer than MAX_TEXT_LENGTH.
C11_StoredTextTruncated ==
    /\ \A i \in Ids : docs[i].extractedText.len <= MAX_TEXT_LENGTH
    /\ UploadSucceeds =>
           LET raw == ExtractedRaw(ret.call.file[1])
               stored == docs[ret.response.data.id].extractedText
           IN /\ raw.len > MAX_TEXT_LENGTH => stored = Text(raw.src, MAX_TEXT_LENGTH)
              /\ raw.len <= MAX_TEXT_LENGTH => stored = raw
              /\ ret.response.data.extractedText = stored

\* A text of twice the limit is stored cut to the limit, beside a record
\* whose text is exactly at the limit.
C11_Witness ==
    /\ UploadSucceeds
    /\ ret.call.file[1].rawlen = 2 * MAX_TEXT_LENGTH
    /\ docs[ret.response.data.id].extractedText.len = MAX_TEXT_LENGTH
    /\ \E i \in Ids : /\ i # ret.response.data.id
                      /\ docs[i].extractedText = Text("c.pdf", MAX_TEXT_LENGTH)

\* The text uploadDocument is to store for a file: its extraction, cut to
\* the first MAX_TEXT_LENGTH characters when it is longer.
ExpectedText(file) ==
    IF file.rawlen > MAX_TEXT_LENGTH THEN Text(file.originalname, MAX_TEXT_LENGTH)
    ELSE Text(file.originalname, file.rawlen)

\* Neither an analyze nor a delete has written to record i.
Untouched(i) == docs[i].analysisStatus = PENDING /\ ~docs[i].isDeleted

\* C12: the step in which an upload succeeds adds exactly one record, with
\* the returned id, status PENDING and the (possibly truncated) extracted
\* text, and changes no other record; records are added by no other step;
\* and a getDocument whose lookup is answered, on a record that no analyze
\* and no delete has written to, returns that record with status PENDING and
\* that text.
C12_UploadThenGet ==
    [][/\ (ret'.op = "uploadDocument" /\ ret'.response.ok) =>
              LET id == ret'.response.data.id IN
              /\ Len(docs') = Len(docs) + 1
              /\ id = Len(docs')
              /\ \A i \in Ids : docs'[i] = docs[i]
              /\ docs'[id].analysisStatus = PENDING
              /\ docs'[id].extractedText = ExpectedText(ret'.call.file[1])
              /\ ret'.response.data = DocumentResponseDto(docs'[id])
       /\ Len(docs') # Len(docs) => (ret'.op = "uploadDocument" /\ ret'.response.ok)
       /\ (/\ ret'.op = "getDocument"
           /\ ret'.call.id \in Ids
           /\ Untouched(ret'.call.id)
           /\ ret'.response # InternalServerErrorException("DB_GET_FAILED")) =>
              LET id == ret'.call.id IN
              /\ ret'.response.ok
              /\ ret'.response.data.id = id
              /\ ret'.response.data.analysisStatus = PENDING
              /\ \E file \in Files :
                     /\ file.originalname = ret'.response.data.originalName
                     /\ ret'.response.data.extractedText = ExpectedText(file)
              /\ ret'.response.data = DocumentResponseDto(docs[id])
              /\ docs' = docs]_vars

\* The second record, uploaded with a text over the limit, is fetched while
\* the first record has been analysed.
C12_Witness ==
    /\ ret.op = "getDocument"
    /\ ret.response.ok
    /\ ret.response.data.id = 2
    /\ ret.response.data.analysisStatus = PENDING
    /\ ret.response.data.extractedText.len = MAX_TEXT_LENGTH
    /\ docs[1].analysisStatus = COMPLETED

\* The error of a lookup that the store did not answer.
GetFailure == InternalServerErrorException("DB_GET_FAILED")

\* The ids a caller can send that are ObjectIds.
WellFormed(id) == id \in 1..MaxUploads

\* No record has the id, or only a soft-deleted one.
NoLiveRecord(id) == id \notin Ids \/ docs[id].isDeleted

\* C13: analyzeDocument, getDocument and deleteDocument with an id that is
\* no ObjectId return DOCUMENT_INVALID_ID with no get and no update issued
\* and every record as it was; with a valid id that no record or only a
\* soft-deleted record has, once the lookup is answered, they return
\* DOCUMENT_NOT_FOUND, with the analysis client not called, no update issued
\* and every record as it was.
C13_BadIdsRefused ==
    [][/\ (ret'.op \in {"analyzeDocument", "getDocument", "deleteDocument"}
              /\ ~WellFormed(ret'.call.id)) =>
              /\ ret'.response = BadRequestException("DOCUMENT_INVALID_ID")
              /\ ret'.call.getCalls = 0
              /\ ret'.op # "getDocument" => ret'.call.updateCalls = 0
              /\ ret'.op = "analyzeDocument" => ret'.call.llmCalls = 0
              /\ docs' = docs
       /\ (ret'.op \in {"analyzeDocument", "deleteDocument"}
              /\ WellFormed(ret'.call.id)
              /\ ret'.call.updateCalls = 0
              /\ NoLiveRecord(ret'.call.id)
              /\ ret'.response # GetFailure) =>
              /\ ret'.response = NotFoundException("DOCUMENT_NOT_FOUND")
              /\ ret'.call.getCalls = 1
              /\ ret'.op = "analyzeDocument" => ret'.call.llmCalls = 0
              /\ docs' = docs
       /\ (ret'.op = "getDocument"
              /\ WellFormed(ret'.call.id)
              /\ NoLiveRecord(ret'.call.id)
              /\ ret'.response # GetFailure) =>
              /\ ret'.response = NotFoundException("DOCUMENT_NOT_FOUND")
              /\ docs' = docs]_vars

\* An analysis is refused on a soft-deleted record that holds results.
C13_Witness ==
    /\ AnalyzeReturns
    /\ ret.response = NotFoundException("DOCUMENT_NOT_FOUND")
    /\ ret.call.id \in Ids
    /\ docs[ret.call.id].isDeleted
    /\ docs[ret.call.id].analysisStatus = COMPLETED

\* The client returns to analyzeDocument in this step.
ClientReturns == ret.op = "openrouterService.analyzeDocument"

\* The endpoint answered with a JSON object that lacks one of summary,
\* documentType and extractedMetadata.
LacksField(resp) ==
    /\ resp.kind = "http"
    /\ resp.status = 200
    /\ resp.content # None
    /\ resp.content[1] # NotJson
    /\ \E f \in {"summary", "documentType", "extractedMetadata"} :
           resp.content[1][f] \in {NULL, ""}

\* The analyze requests that hold a failure of the client.
HoldingFailure == {a \in AnalyzeCalls : analyses[a].pc = "setFailed"}

\* C14 as stated: when the endpoint's answer lacks a required field, the
\* client raises LLM_RESPONSE_INVALID, not the generic LLM_ANALYSIS_FAILED,
\* and the request that got it ends with the record FAILED and that error
\* returned to the caller, once its update is applied.
C14_InvalidResultSurfaced ==
    [][(ClientReturns /\ LacksField(ret.resp)) =>
           /\ ret.response = InternalServerErrorException("LLM_RESPONSE_INVALID")
           /\ (/\ Cardinality(HoldingFailure) = 1
               /\ ret'.op = "analyzeDocument"
               /\ ret'.call.llmError # None
               /\ ret'.response # UpdateError(ret'.call.id, FALSE)) =>
                  /\ docs'[ret'.call.id].analysisStatus = FAILED
                  /\ ret'.response = InternalServerErrorException("LLM_RESPONSE_INVALID")]_vars

\* The cause of a failure of the client, by the endpoint's answer.
Cause(resp) ==
    IF resp.kind = "network" THEN "network"
    ELSE IF resp.status = 401 \/ resp.status = 403 THEN "authentication"
    ELSE IF resp.status = 429 THEN "rate limit"
    ELSE IF resp.status = 402 THEN "insufficient credit"
    ELSE IF resp.status >= 400 THEN "upstream"
    ELSE "malformed response"

\* C15 as stated: a failure the client returns for one cause is returned
\* for no answer of another cause.
C15_CausesKeptApart ==
    (ClientReturns /\ ~ret.response.ok) =>
        \A other \in Responses :
            (~OpenrouterAnalyzeDocument(other).ok /\ Cause(other) # Cause(ret.resp)) =>
                OpenrouterAnalyzeDocument(other) # ret.response

\* C16: a re-analysis (of a record found COMPLETED) that fails changes
\* nothing but analysisStatus: its update before the client call writes
\* ANALYZING and its update in the catch block writes FAILED, each leaving
\* every other field of the record, summary, documentType and
\* extractedMetadata among them, and every other record as it was.
C16_FailedReAnalysisKeepsResults ==
    [][\A a \in AnalyzeCalls :
          (/\ analyses[a].reAnalysis
           /\ analyses[a].pc \in {"setAnalyzing", "llm", "setFailed"}
           /\ analyses'[a] # analyses[a]) =>
              /\ \A i \in Ids :
                     /\ i # analyses[a].id => docs'[i] = docs[i]
                     /\ \A f \in DOMAIN docs[i] \ {"analysisStatus"} :
                            docs'[i][f] = docs[i][f]
              /\ docs' # docs =>
                     docs'[analyses[a].id].analysisStatus =
                         IF analyses[a].pc = "setAnalyzing" THEN ANALYZING ELSE FAILED]_vars

\* A re-analysis has failed and the record, now FAILED, still holds the
\* results of the earlier analysis.
C16_Witness ==
    /\ AnalyzeReturns
    /\ ret.call.reAnalysis
    /\ ret.call.llmError # None
    /\ ret.response = ret.call.llmError[1]
    /\ docs[ret.call.id].analysisStatus = FAILED
    /\ docs[ret.call.id].summary = "s2"
    /\ docs[ret.call.id].documentType = "other"

\* The records the store returns for the find that is served in this step.
FoundNow(l) ==
    IF lists'[l].payload # None THEN lists'[l].payload[1] ELSE ret'.call.payload[1]

\* find is served in this step for request l.
FindServed(l) ==
    /\ lists[l].payload = None
    /\ \/ lists'[l].payload # None
       \/ lists[l].pc = "pending" /\ ret'.op = "listDocuments" /\ ret'.response.ok

\* C17: a deleteDocument that succeeds leaves the record with isDeleted true
\* and a deletedAt timestamp; a record that is deleted stays deleted with
\* its timestamp whatever operation follows; a getDocument on it finds
\* nothing (NotFound, or the failure of the lookup itself); and a find of
\* listDocuments served from then on holds no item of that record.
C17_DeletedStaysHidden ==
    [][/\ (ret'.op = "deleteDocument" /\ ret'.response.ok) =>
              /\ docs'[ret'.call.id].isDeleted
              /\ docs'[ret'.call.id].deletedAt = "Date"
       /\ \A i \in Ids :
              docs[i].isDeleted =>
                  /\ docs'[i].isDeleted
                  /\ docs'[i].deletedAt # NULL
                  /\ (ret'.op = "getDocument" /\ ret'.call.id = i) =>
                         ret'.response \in
                             {NotFoundException("DOCUMENT_NOT_FOUND"),
                              InternalServerErrorException("DB_GET_FAILED")}
                  /\ \A l \in ListCalls :
                         FindServed(l) =>
                             \A n \in DOMAIN FoundNow(l) : FoundNow(l)[n].id # i]_vars

\* listDocuments returns the one record that is left beside a deleted one.
C17_Witness ==
    /\ ret.op = "listDocuments"
    /\ ret.response.ok
    /\ Len(docs) = 2
    /\ docs[1].isDeleted
    /\ docs[1].deletedAt = "Date"
    /\ ~docs[2].isDeleted
    /\ ret.response.data = <<DocumentResponseDto(docs[2])>>

\* The query of request l, for which the store answers in this step.
QueryNow(l) ==
    IF lists'[l].query # None THEN lists'[l].query[1] ELSE ret'.call.query[1]

\* countDocuments is served in this step for request l.
CountServed(l) ==
    /\ lists[l].total = None
    /\ \/ lists'[l].total # None
       \/ lists[l].pc = "pending" /\ ret'.op = "listDocuments" /\ ret'.response.ok

TotalNow(l) ==
    IF lists'[l].total # None THEN lists'[l].total[1] ELSE ret'.call.total[1]

ListFilters == {"analysisStatus", "documentType"}

\* The records that are not deleted and have the value of each filter of
\* the query that counts as supplied.
Asked(query, Supplied(_)) ==
    {i \in Ids : /\ ~docs[i].isDeleted
                 /\ \A f \in ListFilters :
                        Supplied(query[f]) => docs[i][f] = query[f]}

\* Each item the store finds is one of the records asked for, and the total
\* is their number.
ListedAsAsked(Supplied(_)) ==
    \A l \in ListCalls :
        /\ FindServed(l) =>
               \A n \in DOMAIN FoundNow(l) :
                   \E i \in Asked(QueryNow(l), Supplied) :
                       FoundNow(l)[n] = DocumentResponseDto(docs[i])
        /\ CountServed(l) =>
               TotalNow(l) = Cardinality(Asked(QueryNow(l), Supplied))

IsSupplied(v) == v # NULL

IsSuppliedNotEmpty(v) == v # NULL /\ v # ""

\* C18: every item listDocuments finds is a record that is not deleted and
\* has the value of every filter the query holds, and the total counts
\* exactly those records.
C18_ListedSatisfyEveryFilter ==
    [][ListedAsAsked(IsSupplied)]_vars

\* C18, amended: every item listDocuments finds is a record that is not
\* deleted and has the value of every filter the query holds with a value
\* that is not empty, and the total counts exactly those records; a filter
\* whose value is the empty string is left out.
C18_ListedSatisfyNonEmptyFilters ==
    [][ListedAsAsked(IsSuppliedNotEmpty)]_vars

\* listDocuments, asked for completed invoices, returns the one that is not
\* deleted and leaves out the one that is, and counts one.
C18_Witness ==
    /\ ret.op = "listDocuments"
    /\ ret.response.ok
    /\ ret.call.query[1].analysisStatus = COMPLETED
    /\ ret.call.query[1].documentType = "invoice"
    /\ Len(docs) = 2
    /\ docs[1].isDeleted
    /\ docs[1].analysisStatus = COMPLETED
    /\ docs[1].documentType = "invoice"
    /\ ret.response.data = <<DocumentResponseDto(docs[2])>>
    /\ ret.response.pagination.total = 1

ResultFields == {"summary", "documentType", "extractedMetadata"}

\* Record i holds exactly the values of the result with status COMPLETED.
HoldsResult(doc, analysisResult) ==
    /\ doc.analysisStatus = COMPLETED
    /\ \A f \in ResultFields : doc[f] = analysisResult[f]

\* C19: the update after a successful client call writes summary,
\* documentType, extractedMetadata and the status COMPLETED in one step,
\* leaving every other field as it was, and the call returns the record
\* with COMPLETED and exactly the values the client returned; and a record
\* becomes COMPLETED, or a COMPLETED record gets other results, in such a
\* step only, so that a COMPLETED record always holds the results of the
\* run that completed it.
C19_ResultsStoredWithCompleted ==
    [][/\ \A a \in AnalyzeCalls :
              (analyses[a].pc = "complete" /\ analyses'[a] # analyses[a] /\ docs' # docs) =>
                  LET id == analyses[a].id
                      analysisResult == analyses[a].analysisResult[1]
                  IN /\ HoldsResult(docs'[id], analysisResult)
                     /\ \A f \in DOMAIN docs[id] \ (ResultFields \cup {"analysisStatus"}) :
                            docs'[id][f] = docs[id][f]
                     /\ ret'.response.ok
                     /\ ret'.response.data.id = id
                     /\ ret'.response.data.analysisStatus = COMPLETED
                     /\ \A f \in ResultFields :
                            ret'.response.data[f] = analysisResult[f]
       /\ \A i \in Ids :
              (/\ docs'[i].analysisStatus = COMPLETED
               /\ \/ docs[i].analysisStatus # COMPLETED
                  \/ \E f \in ResultFields : docs'[i][f] # docs[i][f]) =>
                  \E a \in AnalyzeCalls :
                      /\ analyses[a].pc = "complete"
                      /\ analyses[a].id = i
                      /\ analyses'[a] # analyses[a]
                      /\ HoldsResult(docs'[i], analyses[a].analysisResult[1])]_vars

\* A call whose client returned a result returns the record, COMPLETED with
\* that result.
C19_Witness ==
    /\ AnalyzeReturns
    /\ ret.response.ok
    /\ ret.call.analysisResult # None
    /\ ret.call.analysisResult[1].extractedMetadata = "m1"
    /\ HoldsResult(docs[ret.call.id], ret.call.analysisResult[1])
    /\ ret.response.data = DocumentResponseDto(docs[ret.call.id])

\* The record holds no results: summary and documentType are null and
\* extractedMetadata is the schema's empty object, which mongoose leaves out
\* of the stored record and of toObject.
NoResults(doc) ==
    /\ doc.summary = NULL
    /\ doc.documentType = NULL
    /\ doc.extractedMetadata = EMPTY_OBJECT

\* C20: a record is created without results, a record gets its first
\* results only in a step that leaves it COMPLETED, and a record that is
\* PENDING has none; so a record that has never been COMPLETED has no
\* summary, no documentType and no extractedMetadata.
C20_NoResultsBeforeCompleted ==
    [][/\ \A i \in Ids : docs[i].analysisStatus = PENDING => NoResults(docs[i])
       /\ \A i \in 1..Len(docs') :
              IF i \in Ids
              THEN (NoResults(docs[i]) /\ ~NoResults(docs'[i])) =>
                       docs'[i].analysisStatus = COMPLETED
              ELSE NoResults(docs'[i]) /\ docs'[i].analysisStatus = PENDING]_vars

\* A first analysis has failed: the record is FAILED and holds no results.
C20_Witness ==
    /\ AnalyzeReturns
    /\ ~ret.call.reAnalysis
    /\ ret.call.llmError # None
    /\ docs[ret.call.id].analysisStatus = FAILED
    /\ NoResults(docs[ret.call.id])

\* C21: an analyze call on a record that is already deleted answers
\* NotFound (or the failure of the lookup itself), and no step writes
\* analysisStatus, summary, documentType or extractedMetadata of a record
\* that is deleted.
C21_NoAnalysisOfDeleted ==
    [][\A i \in Ids :
          docs[i].isDeleted =>
              /\ (ret'.op = "analyzeDocument" /\ ret'.call.id = i /\ ret'.call.updateCalls = 0) =>
                     ret'.response \in
                         {NotFoundException("DOCUMENT_NOT_FOUND"),
                          InternalServerErrorException("DB_GET_FAILED")}
              /\ \A f \in ResultFields \cup {"analysisStatus"} :
                     docs'[i][f] = docs[i][f]]_vars

\* C22: the last writer of the status wins: whatever the status of the
\* record and whatever other analyze call is in flight, the update of an
\* analyze call that is applied leaves the record ANALYZING (first update),
\* FAILED (update of the catch block) or COMPLETED (final update).
C22_LastStatusWriterWins ==
    [][\A a \in AnalyzeCalls :
          (analyses[a].pc # "idle" /\ analyses'[a] # analyses[a]) =>
              LET id == analyses[a].id IN
              /\ (analyses[a].pc = "setAnalyzing" /\ analyses'[a].pc = "llm") =>
                     docs'[id].analysisStatus = ANALYZING
              /\ (analyses[a].pc = "setFailed" /\ ret'.response = analyses[a].llmError[1]) =>
                     docs'[id].analysisStatus = FAILED
              /\ (analyses[a].pc = "complete" /\ ret'.response.ok) =>
                     docs'[id].analysisStatus = COMPLETED]_vars

\* Two calls on one record that both found it not COMPLETED have both
\* marked it ANALYZING and both called the client: one has just stored its
\* results with COMPLETED and returned, the other is about to mark the
\* record FAILED.
C22_Witness ==
    /\ AnalyzeReturns
    /\ ret.response.ok
    /\ ~ret.call.reAnalysis
    /\ ret.call.llmCalls = 1
    /\ ret.call.updateCalls = 2
    /\ docs[ret.call.id].analysisStatus = COMPLETED
    /\ \E a \in AnalyzeCalls :
           /\ analyses[a].pc = "setFailed"
           /\ analyses[a].id = ret.call.id
           /\ ~analyses[a].reAnalysis
           /\ analyses[a].llmCalls = 1
           /\ analyses[a].updateCalls = 1

\* C23: a step of an analyze call or of a delete call changes no record but
\* the one whose id the call was given, whatever other calls are in flight
\* on other records.
C23_OtherRecordsUntouched ==
    [][/\ \A a \in AnalyzeCalls :
              (analyses[a].pc # "idle" /\ analyses'[a] # analyses[a]) =>
                  \A i \in Ids : i # analyses[a].id => docs'[i] = docs[i]
       /\ \A d \in DeleteCalls :
              (deletes[d].pc # "idle" /\ deletes'[d] # deletes[d]) =>
                  \A i \in Ids : i # deletes[d].id => docs'[i] = docs[i]
       /\ (ret'.op \in {"analyzeDocument", "deleteDocument"} /\ ret'.call.updateCalls = 0) =>
              docs' = docs]_vars

\* An analyze call has just completed one record while another analyze call
\* is at the client for the other record, which is ANALYZING.
C23_Witness ==
    /\ Len(docs) = 2
    /\ AnalyzeReturns
    /\ ret.response.ok
    /\ ret.call.updateCalls = 2
    /\ docs[ret.call.id].analysisStatus = COMPLETED
    /\ \E a \in AnalyzeCalls :
           /\ analyses[a].pc = "llm"
           /\ analyses[a].id # ret.call.id
           /\ docs[analyses[a].id].analysisStatus = ANALYZING
           /\ NoResults(docs[analyses[a].id])

\* C24: no step removes a record or renumbers one: the collection grows by
\* one record at a time, in the step in which an upload returns its record;
\* and the step in which deleteDocument marks a record changes nothing of
\* it but isDeleted and deletedAt and removes no object from the bucket, so
\* that a record's object, once stored, stays stored.
C24_NeverHardDeleted ==
    [][/\ Len(docs') >= Len(docs)
       /\ \A i \in Ids : docs'[i]._id = docs[i]._id
       /\ Len(docs') # Len(docs) =>
              /\ Len(docs') = Len(docs) + 1
              /\ ret'.op = "uploadDocument"
              /\ ret'.response.ok
              /\ ret'.response.data.id = Len(docs')
       /\ \A i \in Ids : docs[i].storagePath \in blobs => docs'[i].storagePath \in blobs'
       /\ \A d \in DeleteCalls :
              (deletes[d].pc # "idle" /\ deletes'[d] # deletes[d]) =>
                  /\ blobs' = blobs
                  /\ \A i \in Ids :
                         \A f \in DOMAIN docs[i] \ {"isDeleted", "deletedAt"} :
                             docs'[i][f] = docs[i][f]]_vars

\* deleteDocument has marked one of two records: both records are there
\* and so is the object of the deleted one.
C24_Witness ==
    /\ ret.op = "deleteDocument"
    /\ ret.response.ok
    /\ Len(docs) = 2
    /\ docs[ret.call.id].isDeleted
    /\ docs[ret.call.id].storagePath \in blobs

\* The fields of a record that are set when it is created.
ProvenanceFields ==
    {"_id", "originalName", "mimetype", "size", "storagePath", "extractedText"}

\* C25: no step changes _id, originalName, mimetype, size, storagePath or
\* extractedText of a stored record.
C25_ProvenanceImmutable ==
    [][\A i \in Ids : \A f \in ProvenanceFields : docs'[i][f] = docs[i][f]]_vars

\* A record has been analysed to the end and deleted, and still holds the
\* text the analysis read.
C25_Witness ==
    /\ AnalyzeReturns
    /\ ret.response.ok
    /\ ret.call.updateCalls = 2
    /\ docs[ret.call.id].isDeleted
    /\ docs[ret.call.id].analysisStatus = COMPLETED
    /\ docs[ret.call.id].extractedText = ret.call.extractedText[1]
    /\ docs[ret.call.id].originalName = "b.docx"

\* C26: an update with a well-formed identifier that no stored record has,
\* which the driver answers, fails with NotFoundException
\* (DOCUMENT_NOT_FOUND_FOR_UPDATE), not with the InternalServerErrorException
\* of a database failure, and changes no record.
C26_UpdateOfMissingIsNotFound ==
    [][(/\ ret'.op = "documentModelAction.update"
        /\ WellFormed(ret'.call.id)
        /\ ret'.call.id \notin Ids
        /\ ret'.call.answered) =>
           /\ ret'.response = NotFoundException("DOCUMENT_NOT_FOUND_FOR_UPDATE")
           /\ docs' = docs]_vars

\* An update for the id 2 has failed with NotFound while one record, with
\* the id 1, is stored.
C26_Witness ==
    /\ ret.op = "documentModelAction.update"
    /\ ret.call.id = 2
    /\ Len(docs) = 1
    /\ ret.response.ok = FALSE
    /\ ret.response.exception = "NotFoundException"

\* The analyze request a after this step: in flight, or as it returned.
AnalyzeAfter(a) == IF analyses'[a].pc # "idle" THEN analyses'[a] ELSE ret'.call

\* The upload request u after this step: in flight, or as it returned.
UploadAfter(u) == IF uploads'[u].pc # "idle" THEN uploads'[u] ELSE ret'.call

\* C27: within one analyzeDocument run the first update is issued before the
\* client is called, the client is called once and only after that update
\* was applied (a run whose first update fails returns without calling it),
\* and the second update is issued only after the client has returned its
\* result or its error; within one uploadDocument run extraction starts
\* after saveFile returned the key and create after extraction returned the
\* text; and no step issues two of these calls.
C27_StepsInOrder ==
    [][/\ \A a \in AnalyzeCalls :
              (analyses'[a] # analyses[a]) =>
                  LET before == analyses[a]
                      after == AnalyzeAfter(a)
                  IN
                  /\ after.llmCalls + after.updateCalls <=
                         before.llmCalls + before.updateCalls + 1
                  /\ (before.updateCalls = 0 /\ after.updateCalls = 1) =>
                         before.llmCalls = 0 /\ before.getCalls = 1
                  /\ after.llmCalls > before.llmCalls =>
                         /\ before.llmCalls = 0
                         /\ before.updateCalls = 1
                         /\ before.view = ANALYZING
                  /\ (before.pc = "setAnalyzing" /\ analyses'[a].pc = "idle") =>
                         after.llmCalls = 0
                  /\ (before.updateCalls = 1 /\ after.updateCalls = 2) =>
                         /\ before.llmCalls = 1
                         /\ before.analysisResult # None \/ before.llmError # None
                  /\ after.updateCalls <= 2
       /\ \A u \in UploadCalls :
              (uploads'[u] # uploads[u]) =>
                  LET before == uploads[u]
                      after == UploadAfter(u)
                  IN
                  /\ after.extractCalls + after.createCalls <=
                         before.extractCalls + before.createCalls + 1
                  /\ before.pc = "idle" => after.extractCalls = 0 /\ after.createCalls = 0
                  /\ after.extractCalls > before.extractCalls =>
                         /\ before.objectKey # 0
                         /\ before.objectKey \in blobs
                         /\ before.extractCalls = 0
                         /\ before.createCalls = 0
                  /\ after.createCalls > before.createCalls =>
                         /\ before.extractCalls = 1
                         /\ before.extractedText # None
                         /\ before.createCalls = 0]_vars

\* A run of analyzeDocument has returned after its three steps: update,
\* client call, update.
C27_Witness ==
    /\ AnalyzeReturns
    /\ ret.call.getCalls = 1
    /\ ret.call.llmCalls = 1
    /\ ret.call.updateCalls = 2
    /\ ret.call.llmError # None

\* The records asked for that are newer than record i.
NewerAsked(query, i) == {j \in Asked(query, IsSuppliedNotEmpty) : j > i}

\* C28: for page >= 1 and limit >= 1 (1 and 20 when left out), the total is
\* the number of records that match the filter; the items are at most limit
\* records, the n-th of them the matching record with (page-1)*limit + n - 1
\* newer matching records, and none is missing while records are left at
\* that offset; and the metadata returned holds that total, the page and
\* the limit, total_pages = ceil(total / limit), has_next exactly when
\* page < total_pages and has_previous exactly when page > 1.
C28_PageAndMetadata ==
    [][\A l \in ListCalls :
          /\ CountServed(l) =>
                 TotalNow(l) = Cardinality(Asked(QueryNow(l), IsSuppliedNotEmpty))
          /\ FindServed(l) =>
                 LET query == QueryNow(l)
                     found == FoundNow(l)
                     skip == (PageOf(query) - 1) * LimitOf(query)
                     left == Cardinality(Asked(query, IsSuppliedNotEmpty)) - skip
                 IN /\ Len(found) <= LimitOf(query)
                    /\ Len(found) = IF left <= 0 THEN 0
                                    ELSE IF left < LimitOf(query) THEN left
                                    ELSE LimitOf(query)
                    /\ \A n \in DOMAIN found :
                           \E i \in Asked(query, IsSuppliedNotEmpty) :
                               /\ found[n] = DocumentResponseDto(docs[i])
                               /\ Cardinality(NewerAsked(query, i)) = skip + n - 1
          /\ (ret'.op = "listDocuments" /\ ret'.response.ok) =>
                 LET query == ret'.call.query[1]
                     meta == ret'.response.pagination
                 IN /\ ret'.response.data = ret'.call.payload[1]
                    /\ meta.total = ret'.call.total[1]
                    /\ meta.page = PageOf(query)
                    /\ meta.limit = LimitOf(query)
                    /\ meta.total_pages * meta.limit >= meta.total
                    /\ meta.total_pages >= 0
                    /\ meta.total_pages > 0 =>
                           (meta.total_pages - 1) * meta.limit < meta.total
                    /\ meta.has_next = (meta.page < meta.total_pages)
                    /\ meta.has_previous = (meta.page > 1)]_vars

\* The second page of one item, of two records: the older record, with a
\* page before it and none after.
C28_Witness ==
    /\ ret.op = "listDocuments"
    /\ ret.response.ok
    /\ ret.call.query[1].page = Some(2)
    /\ ret.call.query[1].limit = Some(1)
    /\ ret.response.pagination.total = 2
    /\ ret.response.pagination.total_pages = 2
    /\ ret.response.pagination.has_previous
    /\ ~ret.response.pagination.has_next
    /\ Len(ret.response.data) = 1
    /\ ret.response.data[1].id = 1

\* C29: every record that is COMPLETED has a summary that is not empty, a
\* documentType that is one of the seven types of the enum, and an
\* extractedMetadata that is there.
C29_CompletedResultWellFormed ==
    \A i \in Ids :
        docs[i].analysisStatus = COMPLETED =>
            /\ Truthy(docs[i].summary)
            /\ docs[i].documentType \in DocumentType
            /\ docs[i].extractedMetadata # NULL

====
